---- MODULE Spec2Model ----
(***************************************************************************)
(* A model of js/global.js: the layout initializer, the fragment loader,   *)
(* the page navigator, the auth guard with logout, and the layout          *)
(* auto-repair.  The browser is modelled by the pieces of it the script    *)
(* reads and writes: location, localStorage, the document, fetch, timers.  *)
(***************************************************************************)
EXTENDS Integers, Sequences, FiniteSets, TLC

VARIABLES
  pathname,      \* window.location.pathname, as its sequence of segments
  href,          \* the last value assigned to window.location.href
  store,         \* localStorage: key -> stored text, NULL when absent
  currentUser,   \* window.currentUser
  logoutPending, \* the logout() calls suspended at their await fetch
  requests,      \* the fetch requests issued so far, in order
  toasts,        \* how often showToast ran
  domLoaded,     \* whether DOMContentLoaded has been dispatched
  doc,           \* the document: the elements the script looks up, and their state
  loads,         \* the loadComponent calls made so far, each with where it stands
  layout,        \* the initLayout call: not made, awaiting a load, or done
  timers,        \* the setTimeout callbacks not yet run, oldest first
  lastCall       \* the step that ran last, the state it read, how it ended

vars == <<pathname, href, store, currentUser, logoutPending, requests,
          toasts, domLoaded, doc, loads, layout, timers, lastCall>>

pageVars == <<doc, loads, layout, timers>>
sessionVars == <<store, currentUser, logoutPending, toasts, domLoaded>>

(***************************************************************************)
(* Bounds of the model.                                                    *)
(***************************************************************************)
MaxRequests == 2
MaxChildren == 3
MaxDirectLoads == 1
MaxTimers == 1
MaxSetups == 2

(***************************************************************************)
(* JavaScript values.                                                      *)
(***************************************************************************)
\* getItem's answer for a key that is not stored; no stored text equals it
NULL == "<null>"

JsUndefined == [t |-> "undefined"]
JsNull == [t |-> "null"]

\* if (x) on a string or null
Truthy(text) == text # NULL /\ text # ""

\* the location before any assignment to window.location.href
NoNavigation == <<>>

(***************************************************************************)
(* location                                                                *)
(***************************************************************************)
Pathnames ==
  { <<"telas2", "admin", "dashboard_admin.html">>,
    <<"telas2", "app", "dashboard.html">>,
    <<"telas2", "portal", "index.html">>,
    <<"telas2", "index.html">>,
    <<"telas2", "app", "admin", "x.html">>,
    <<"admin", "partidos.html">>,
    <<"telas2", "admin">>,
    <<"">> }

\* path.split('/')[1], with '/' put before it: the first segment
getBasePath(path) == <<path[1]>>

\* path.includes("/" + marker + "/"): a segment that is followed by a slash
PathIncludes(path, marker) == \E i \in 1..(Len(path) - 1) : path[i] = marker

LoginUrl(path) == getBasePath(path) \o <<"app", "login.html">>

LogoutEndpoint == <<"api", "auth", "logout">>

(***************************************************************************)
(* localStorage                                                            *)
(***************************************************************************)
Keys == {"authToken", "userData", "showLoginSuccessToast", "theme"}

TokenTexts == {NULL, "", "tok123"}

UserRecordText == "{\"email\":\"a@x\",\"role\":\"admin\"}"
UserTexts == {NULL, "", "{bad", "null", "42", "{}", UserRecordText}

getItem(s, k) == s[k]
removeItem(s, k) == [s EXCEPT ![k] = NULL]
EmptyStore == [k \in Keys |-> NULL]

localStorageClearKeepsOthers(s) == removeItem(removeItem(s, "authToken"), "userData")
localStorageClear(s) == EmptyStore

\* JSON.parse on the stored texts of the model: ok is FALSE for a SyntaxError
JSONParse(text) ==
  CASE text = "null" -> [ok |-> TRUE, value |-> JsNull]
    [] text = "42" -> [ok |-> TRUE, value |-> [t |-> "number", n |-> 42]]
    [] text = "{}" -> [ok |-> TRUE, value |-> [t |-> "object"]]
    [] text = UserRecordText ->
         [ok |-> TRUE, value |-> [t |-> "object", email |-> "a@x", role |-> "admin"]]
    [] OTHER -> [ok |-> FALSE, value |-> JsUndefined]

\* reading a property of v throws a TypeError
PropertyReadThrows(v) == v.t \in {"null", "undefined"}

(***************************************************************************)
(* The document                                                            *)
(***************************************************************************)
\* An element is [id, cls, kids]: its identity, its class list, its children
\* in document order.  A lookup that finds nothing gives NoElement.
NoElement == [id |-> 0, cls |-> {}, kids |-> <<>>]

Found(el) == el # NoElement

Element(id, cls, kids) == [id |-> id, cls |-> cls, kids |-> kids]

\* The children a .main-content is given in the model, by kind: a section of
\* each of the four classes, a section carrying two of them, a plain block, a
\* plain block holding a section or a wrapper further down, and a wrapper
\* that is already in place.
ChildKinds == {"form", "pautas", "dashboard", "content", "form+content",
               "plain", "plain>form", "plain>wrapper", "wrapper"}

MkChild(kind, id) ==
  CASE kind = "form" -> Element(id, {"form-section"}, <<>>)
    [] kind = "pautas" -> Element(id, {"pautas-section"}, <<>>)
    [] kind = "dashboard" -> Element(id, {"dashboard-section"}, <<>>)
    [] kind = "content" -> Element(id, {"content-section"}, <<>>)
    [] kind = "form+content" -> Element(id, {"form-section", "content-section"}, <<>>)
    [] kind = "plain" -> Element(id, {"page-header"}, <<>>)
    [] kind = "plain>form" ->
         Element(id, {"card"}, <<Element(10 * id + 1, {"form-section"}, <<>>)>>)
    [] kind = "plain>wrapper" ->
         Element(id, {"card"}, <<Element(10 * id + 1, {"page-content-wrapper"}, <<>>)>>)
    [] kind = "wrapper" ->
         Element(id, {"page-content-wrapper"},
           <<Element(10 * id + 1, {"content-area"},
               <<Element(10 * id + 2, {"form-section"}, <<>>)>>)>>)

MainContentOf(kinds) ==
  Element(1000, {"main-content"}, [i \in 1..Len(kinds) |-> MkChild(kinds[i], i)])

KindSeqs(n) == UNION { [1..m -> ChildKinds] : m \in 0..n }

\* el.querySelector("." + c): some descendant of el carries class c
RECURSIVE HasDescendant(_, _)
HasDescendant(el, c) ==
  \E i \in 1..Len(el.kids) : c \in el.kids[i].cls \/ HasDescendant(el.kids[i], c)

\* el.querySelectorAll(":scope > ." + c): the children carrying class c
ScopeChildren(el, c) == SelectSeq(el.kids, LAMBDA k : c \in k.cls)

\* parent.appendChild(el) on the parent's children: el leaves the place it
\* had and becomes the last child
appendChild(kids, el) == SelectSeq(kids, LAMBDA k : k.id # el.id) \o <<el>>

RECURSIVE AppendAll(_, _)
AppendAll(kids, els) ==
  IF els = <<>> THEN kids ELSE AppendAll(appendChild(kids, Head(els)), Tail(els))

PlaceholderIds == {"sidebar-placeholder", "header-placeholder",
                   "navbar-placeholder", "footer-placeholder"}

\* innerHTML of a placeholder: the markup the page came with, a fetched text,
\* or the error paragraph of loadComponent, which names the path
PageMarkup == [kind |-> "markup"]
FetchedText(text) == [kind |-> "text", text |-> text]
ErrorMessage(componentPath) ==
  [kind |-> "error", style |-> "color:red;",
   text |-> "Erro ao carregar componente: ", path |-> componentPath]

\* The document as it is parsed: the ids present, the content of the
\* placeholders, the header title and icon, the elements carrying the class
\* active, the .main-content subtree, whether #mainContent carries the class
\* transitioning, the a[data-page] links with their click listeners, the
\* click listeners on profileBtn and on window, the .fade-in elements and
\* what observes them, the .status-dropdown elements and the click listeners
\* initStatusDropdowns has put on window.
DocWith(ids, mainContent) ==
  [ids |-> ids,
   html |-> [p \in PlaceholderIds |-> PageMarkup],
   title |-> "",
   icon |-> "",
   active |-> {},
   main |-> mainContent,
   created |-> 0,
   transitioning |-> FALSE,
   links |-> <<[page |-> "dashboard", listeners |-> 0],
               [page |-> "perfil", listeners |-> 0]>>,
   btnListeners |-> 0,
   windowListeners |-> 0,
   fadeIn |-> IF "mainContent" \in ids THEN 2 ELSE 0,
   observers |-> 0,
   observed |-> 0,
   status |-> <<>>,
   statusWindowListeners |-> 0]

getElementById(d, id) == id \in d.ids

PlainIds == {"header-title", "header-icon", "nav-dashboard", "profileBtn",
             "profileDropdown", "mainContent"}

(***************************************************************************)
(* Layout auto-repair                                                      *)
(***************************************************************************)
containerSelectors ==
  <<"form-section", "pautas-section", "dashboard-section", "content-section">>

\* containersToWrap: for each selector in turn, the children it matches
containersToWrap(mainContent) ==
  ScopeChildren(mainContent, containerSelectors[1])
    \o ScopeChildren(mainContent, containerSelectors[2])
    \o ScopeChildren(mainContent, containerSelectors[3])
    \o ScopeChildren(mainContent, containerSelectors[4])

\* the two early returns that follow the lookup of .main-content
RepairUnguarded(mainContent) == TRUE
RepairNeeded(mainContent) ==
  /\ ~HasDescendant(mainContent, "page-content-wrapper")
  /\ containersToWrap(mainContent) # <<>>

\* the two createElement calls and the moves: d.created counts the elements
\* the script has created, which gives the new ones their identity
WrapContainers(d) ==
  LET mainContent == d.main
      moved == containersToWrap(mainContent)
      movedIds == { moved[i].id : i \in 1..Len(moved) }
      contentArea ==
        Element(2001 + d.created, {"content-area"}, AppendAll(<<>>, moved))
      pageContentWrapper ==
        Element(2000 + d.created, {"page-content-wrapper"}, <<contentArea>>)
      left == SelectSeq(mainContent.kids, LAMBDA k : k.id \notin movedIds)
  IN [d EXCEPT !.main = [mainContent EXCEPT !.kids = appendChild(left, pageContentWrapper)],
               !.created = d.created + 2]

autoFixFormSectionLayout(d) ==
  IF ~Found(d.main) THEN d
  ELSE IF ~RepairNeeded(d.main) THEN d
  ELSE WrapContainers(d)

AutoFixCall ==
  /\ doc' = autoFixFormSectionLayout(doc)
  /\ lastCall' = [op |-> "autoFixFormSectionLayout", arg |-> doc,
                  outcome |-> "returned"]
  /\ UNCHANGED <<pathname, href, requests, loads, layout, timers>>
  /\ UNCHANGED sessionVars

(***************************************************************************)
(* Page configuration                                                      *)
(***************************************************************************)
\* initLayout() called without an argument
NoConfig == [t |-> "undefined"]

\* a field that was not given is the empty text here: both are falsy
PageConfigs ==
  { NoConfig,
    [title |-> "Painel", icon |-> "fa-gauge", navActive |-> "nav-dashboard"],
    [title |-> "Perfil", icon |-> "", navActive |-> "nav-perfil"] }

setupDynamicContent(d, pageConfig) ==
  IF pageConfig = NoConfig THEN d
  ELSE [d EXCEPT
         !.title = IF getElementById(d, "header-title") /\ pageConfig.title # ""
                   THEN pageConfig.title ELSE @,
         !.icon = IF getElementById(d, "header-icon") /\ pageConfig.icon # ""
                  THEN "fa-solid " \o pageConfig.icon ELSE @,
         !.active = IF pageConfig.navActive # "" /\ getElementById(d, pageConfig.navActive)
                    THEN @ \cup {pageConfig.navActive} ELSE @]

(***************************************************************************)
(* Listener wiring                                                         *)
(***************************************************************************)
initializeFadeInObserver(d) ==
  IF d.fadeIn = 0 THEN d
  ELSE [d EXCEPT !.observers = @ + 1, !.observed = @ + d.fadeIn]

\* link.replaceWith(link.cloneNode(true)) for each a[data-page]: a clone
\* carries none of the listeners addEventListener gave the original
cloneNavLinksKeepsListeners(links) == links
cloneNavLinks(links) ==
  [i \in 1..Len(links) |-> [links[i] EXCEPT !.listeners = 0]]

\* each a[data-page] now in the document is given a click listener
addNavListeners(links) ==
  [i \in 1..Len(links) |-> [links[i] EXCEPT !.listeners = @ + 1]]

setupEventListeners(d) ==
  initializeFadeInObserver(
    [d EXCEPT
      !.btnListeners = IF getElementById(d, "profileBtn")
                          /\ getElementById(d, "profileDropdown")
                       THEN @ + 1 ELSE @,
      !.windowListeners = @ + 1,
      !.links = addNavListeners(cloneNavLinks(d.links))])

(***************************************************************************)
(* Fragment loader                                                         *)
(***************************************************************************)
\* A loadComponent call is [path, target, caller, pc, result, ended]: pc is
\* "fetch" while it awaits fetch, "body" while it awaits response.text(),
\* "done" after its last statement.
LoadFrame(componentPath, targetElementId, caller, pc, result, ended) ==
  [path |-> componentPath, target |-> targetElementId, caller |-> caller,
   pc |-> pc, result |-> result, ended |-> ended]

Get(url) == [url |-> url, method |-> "GET", bearer |-> NULL]

\* loadComponent up to await fetch, or to its return when the target is missing
loadComponentCallFetchesFirst(d, componentPath, targetElementId, caller) ==
  [frame |-> IF ~getElementById(d, targetElementId)
             THEN LoadFrame(componentPath, targetElementId, caller,
                            "done", "no-target", "returned")
             ELSE LoadFrame(componentPath, targetElementId, caller,
                            "fetch", "pending", ""),
   fetch |-> <<Get(componentPath)>>]

loadComponentCall(d, componentPath, targetElementId, caller) ==
  IF ~getElementById(d, targetElementId)
  THEN [frame |-> LoadFrame(componentPath, targetElementId, caller,
                            "done", "no-target", "returned"),
        fetch |-> <<>>]
  ELSE [frame |-> LoadFrame(componentPath, targetElementId, caller,
                            "fetch", "pending", ""),
        fetch |-> <<Get(componentPath)>>]

\* the catch block
loadComponentCatchRethrows(d, frame) ==
  [doc |-> d,
   frame |-> [frame EXCEPT !.pc = "done", !.result = "error", !.ended = "threw"]]

loadComponentCatch(d, frame) ==
  [doc |-> [d EXCEPT !.html[frame.target] = ErrorMessage(frame.path)],
   frame |-> [frame EXCEPT !.pc = "done", !.result = "error", !.ended = "returned"]]

\* the code after await fetch: a rejected fetch and a response that is not ok
\* both reach the catch block, an ok response goes on to read the body
loadComponentFetched(outcome, d, frame) ==
  IF outcome = "ok"
  THEN [doc |-> d, frame |-> [frame EXCEPT !.pc = "body"]]
  ELSE loadComponentCatch(d, frame)

Texts == {"<nav>menu</nav>", ""}

\* how response.text() settles: with the body, or rejected
BodyOutcomes == {[ok |-> TRUE, text |-> text] : text \in Texts}
                  \cup {[ok |-> FALSE, text |-> ""]}

\* the code after await response.text()
loadComponentBodyRead(body, d, frame) ==
  IF body.ok
  THEN [doc |-> [d EXCEPT !.html[frame.target] = FetchedText(body.text)],
        frame |-> [frame EXCEPT !.pc = "done", !.result = "text", !.ended = "returned"]]
  ELSE loadComponentCatch(d, frame)

(***************************************************************************)
(* Layout initializer                                                      *)
(***************************************************************************)
Component(path, file) == getBasePath(path) \o <<"components", file>>

\* the loadComponent calls initLayout makes for a path, in order
LayoutComponentsHeaderFirst(path) ==
  IF PathIncludes(path, "admin")
  THEN <<[path |-> Component(path, "admin_header.html"), target |-> "header-placeholder"],
         [path |-> Component(path, "admin_sidebar.html"), target |-> "sidebar-placeholder"]>>
  ELSE IF PathIncludes(path, "app")
  THEN <<[path |-> Component(path, "app_header.html"), target |-> "header-placeholder"],
         [path |-> Component(path, "app_sidebar.html"), target |-> "sidebar-placeholder"]>>
  ELSE IF PathIncludes(path, "portal")
  THEN <<[path |-> Component(path, "portal_footer.html"), target |-> "footer-placeholder"],
         [path |-> Component(path, "portal_navbar.html"), target |-> "navbar-placeholder"]>>
  ELSE <<>>

LayoutComponentsDefaultsToApp(path) ==
  IF PathIncludes(path, "admin")
  THEN <<[path |-> Component(path, "admin_sidebar.html"), target |-> "sidebar-placeholder"],
         [path |-> Component(path, "admin_header.html"), target |-> "header-placeholder"]>>
  ELSE IF PathIncludes(path, "portal")
  THEN <<[path |-> Component(path, "portal_navbar.html"), target |-> "navbar-placeholder"],
         [path |-> Component(path, "portal_footer.html"), target |-> "footer-placeholder"]>>
  ELSE <<[path |-> Component(path, "app_sidebar.html"), target |-> "sidebar-placeholder"],
         [path |-> Component(path, "app_header.html"), target |-> "header-placeholder"]>>

LayoutComponents(path) ==
  IF PathIncludes(path, "admin")
  THEN <<[path |-> Component(path, "admin_sidebar.html"), target |-> "sidebar-placeholder"],
         [path |-> Component(path, "admin_header.html"), target |-> "header-placeholder"]>>
  ELSE IF PathIncludes(path, "app")
  THEN <<[path |-> Component(path, "app_sidebar.html"), target |-> "sidebar-placeholder"],
         [path |-> Component(path, "app_header.html"), target |-> "header-placeholder"]>>
  ELSE IF PathIncludes(path, "portal")
  THEN <<[path |-> Component(path, "portal_navbar.html"), target |-> "navbar-placeholder"],
         [path |-> Component(path, "portal_footer.html"), target |-> "footer-placeholder"]>>
  ELSE <<>>

LayoutIdle == [pc |-> "idle", step |-> 0, config |-> NoConfig]

\* the three calls that end initLayout
initLayoutFinish(d, pageConfig) ==
  setupEventListeners(autoFixFormSectionLayout(setupDynamicContent(d, pageConfig)))

\* initLayout from its k-th loadComponent call on, up to the await that
\* suspends it on a fetch, or to its end.  Awaiting a call that returned at
\* once resumes in a microtask, before any event, timer or fetch completion
\* is handled, so it does not end the step.
initLayoutFromNoAwait(k, st) ==
  LET comps == LayoutComponents(st.path)
      call(j) == loadComponentCall(st.doc, comps[j].path, comps[j].target, "initLayout")
  IN [st EXCEPT !.loads = @ \o [j \in 1..(Len(comps) - k + 1) |-> call(j + k - 1).frame],
                !.requests = @ \o (IF k <= Len(comps) THEN call(k).fetch ELSE <<>>)
                               \o (IF k + 1 <= Len(comps) THEN call(k + 1).fetch ELSE <<>>),
                !.doc = initLayoutFinish(st.doc, st.config),
                !.pc = "done"]

RECURSIVE initLayoutFrom(_, _)
initLayoutFrom(k, st) ==
  LET comps == LayoutComponents(st.path) IN
  IF k > Len(comps)
  THEN [st EXCEPT !.doc = initLayoutFinish(st.doc, st.config), !.pc = "done"]
  ELSE LET c == loadComponentCall(st.doc, comps[k].path, comps[k].target, "initLayout") IN
       IF c.frame.pc = "done"
       THEN initLayoutFrom(k + 1, [st EXCEPT !.loads = Append(@, c.frame)])
       ELSE [st EXCEPT !.loads = Append(@, c.frame),
                       !.requests = @ \o c.fetch,
                       !.pc = "awaiting",
                       !.step = k]

Running(d, reqs, ls, lay, path) ==
  [doc |-> d, requests |-> reqs, loads |-> ls, pc |-> lay.pc, step |-> lay.step,
   config |-> lay.config, path |-> path]

\* a loadComponent call has moved on: when it is done and initLayout awaits
\* it, initLayout resumes
Resume(i, r, d, reqs, ls, lay, path) ==
  LET st == Running(r.doc, reqs, [ls EXCEPT ![i] = r.frame], lay, path) IN
  IF r.frame.pc = "done" /\ r.frame.caller = "initLayout"
  THEN initLayoutFrom(lay.step + 1, st)
  ELSE st

InitLayoutCall(pageConfig) ==
  LET r == initLayoutFrom(1, Running(doc, requests, loads,
                                     [LayoutIdle EXCEPT !.config = pageConfig], pathname)) IN
  /\ layout.pc = "idle"
  /\ doc' = r.doc
  /\ requests' = r.requests
  /\ loads' = r.loads
  /\ layout' = [pc |-> r.pc, step |-> r.step, config |-> r.config]
  /\ lastCall' = [op |-> "initLayout", arg |-> pageConfig, outcome |-> r.pc]
  /\ UNCHANGED <<pathname, href, timers>>
  /\ UNCHANGED sessionVars

DirectPaths == {<<"telas2", "components", "widget.html">>}
DirectTargets == {"sidebar-placeholder", "no-such-id"}

DirectLoads(ls) == Cardinality({i \in 1..Len(ls) : ls[i].caller = "page"})

\* the page's own script calls loadComponent
LoadComponentCall(componentPath, targetElementId) ==
  LET c == loadComponentCall(doc, componentPath, targetElementId, "page") IN
  /\ DirectLoads(loads) < MaxDirectLoads
  /\ loads' = Append(loads, c.frame)
  /\ requests' = requests \o c.fetch
  /\ lastCall' = [op |-> "loadComponent",
                  arg |-> [path |-> componentPath, target |-> targetElementId],
                  outcome |-> c.frame.ended]
  /\ UNCHANGED <<pathname, href, doc, layout, timers>>
  /\ UNCHANGED sessionVars

Settled(r, how) ==
  /\ doc' = r.doc
  /\ requests' = r.requests
  /\ loads' = r.loads
  /\ layout' = [pc |-> r.pc, step |-> r.step, config |-> r.config]
  /\ lastCall' = [op |-> "loadComponent.settled", arg |-> how, outcome |-> r.pc]
  /\ UNCHANGED <<pathname, href, timers>>
  /\ UNCHANGED sessionVars

\* the fetch of the i-th loadComponent call settles
FetchSettle(i, outcome) ==
  /\ i \in 1..Len(loads)
  /\ loads[i].pc = "fetch"
  /\ Settled(Resume(i, loadComponentFetched(outcome, doc, loads[i]),
                    doc, requests, loads, layout, pathname),
             [frame |-> i, fetch |-> outcome, body |-> [ok |-> FALSE, text |-> ""]])

\* response.text() of the i-th loadComponent call settles
BodySettle(i, body) ==
  /\ i \in 1..Len(loads)
  /\ loads[i].pc = "body"
  /\ Settled(Resume(i, loadComponentBodyRead(body, doc, loads[i]),
                    doc, requests, loads, layout, pathname),
             [frame |-> i, fetch |-> "ok", body |-> body])

(***************************************************************************)
(* Page navigator                                                          *)
(***************************************************************************)
isAdminContext(path) == PathIncludes(path, "admin")

\* the object literal of getPageUrl, without the base path that starts
\* each of its values
PageFiles ==
  [k \in {"dashboard_admin", "nova-camara", "novo-partido", "partidos",
          "configuracoes", "relatorios", "dashboard", "cadastro", "nova_pauta",
          "editar_pauta", "vereadores", "editar_vereador", "ordem_do_dia",
          "relatorio", "perfil", "sessoes"} |->
     CASE k = "dashboard_admin" -> <<"admin", "dashboard_admin.html">>
       [] k = "nova-camara" -> <<"admin", "nova_camara.html">>
       [] k = "novo-partido" -> <<"admin", "novo_partido.html">>
       [] k = "partidos" -> <<"admin", "partidos.html">>
       [] k = "configuracoes" -> <<"admin", "configuracoes.html">>
       [] k = "relatorios" -> <<"admin", "relatorios.html">>
       [] k = "dashboard" -> <<"app", "dashboard.html">>
       [] k = "cadastro" -> <<"app", "cadastro_de_pautas.html">>
       [] k = "nova_pauta" -> <<"app", "nova_pauta.html">>
       [] k = "editar_pauta" -> <<"app", "editar_pauta.html">>
       [] k = "vereadores" -> <<"app", "vereadores.html">>
       [] k = "editar_vereador" -> <<"app", "editar_vereador.html">>
       [] k = "ordem_do_dia" -> <<"app", "ordem_do_dia.html">>
       [] k = "relatorio" -> <<"app", "relatorio.html">>
       [] k = "perfil" -> <<"app", "perfil_camara.html">>
       [] k = "sessoes" -> <<"app", "sessoes.html">>]

\* pageMap, as getPageUrl builds it on each call
pageMap(basePath) == [k \in DOMAIN PageFiles |-> basePath \o PageFiles[k]]

\* names every object inherits from Object.prototype
ObjectPrototypeKeys == {"constructor", "toString", "valueOf", "hasOwnProperty",
                        "__proto__"}

\* object[key]: the object's own property, else the inherited one, else
\* undefined
PropertyRead(object, key) ==
  IF key \in DOMAIN object THEN [t |-> "string", url |-> object[key]]
  ELSE IF key \in ObjectPrototypeKeys THEN [t |-> "inherited", name |-> key]
  ELSE JsUndefined

getPageUrlNoSubstitution(path, pageName) ==
  PropertyRead(pageMap(getBasePath(path)), pageName)

getPageUrl(path, pageName) ==
  LET key == IF isAdminContext(path) /\ pageName = "dashboard"
             THEN "dashboard_admin" ELSE pageName
  IN PropertyRead(pageMap(getBasePath(path)), key)

\* if (!value): of the values a property read gives, only undefined is falsy
Falsy(value) == value.t = "undefined"

\* the text window.location.href is given when value is assigned to it
HrefOf(value) ==
  IF value.t = "string" THEN value.url
  ELSE <<"String(Object.prototype." \o value.name \o ")">>

TransitionDelay == 200

navigateToPageWithoutDelay(d, h, path, pageName) ==
  LET targetUrl == getPageUrl(path, pageName) IN
  IF Falsy(targetUrl)
  THEN [doc |-> d, href |-> h, timers |-> <<>>, outcome |-> "warned"]
  ELSE [doc |-> [d EXCEPT !.transitioning = getElementById(d, "mainContent")],
        href |-> HrefOf(targetUrl), timers |-> <<>>, outcome |-> "navigated"]

navigateToPage(d, h, path, pageName) ==
  LET targetUrl == getPageUrl(path, pageName) IN
  IF Falsy(targetUrl)
  THEN [doc |-> d, href |-> h, timers |-> <<>>, outcome |-> "warned"]
  ELSE IF getElementById(d, "mainContent")
  THEN [doc |-> [d EXCEPT !.transitioning = TRUE], href |-> h,
        timers |-> <<[delay |-> TransitionDelay, href |-> HrefOf(targetUrl)]>>,
        outcome |-> "scheduled"]
  ELSE [doc |-> d, href |-> HrefOf(targetUrl), timers |-> <<>>,
        outcome |-> "navigated"]

NavigateToPageCall(pageName) ==
  LET r == navigateToPage(doc, href, pathname, pageName) IN
  /\ Len(timers) + Len(r.timers) <= MaxTimers
  /\ doc' = r.doc
  /\ href' = r.href
  /\ timers' = timers \o r.timers
  /\ lastCall' = [op |-> "navigateToPage", arg |-> pageName, outcome |-> r.outcome]
  /\ UNCHANGED <<pathname, requests, loads, layout>>
  /\ UNCHANGED sessionVars

GetPageUrlCall(pageName) ==
  /\ lastCall' = [op |-> "getPageUrl", arg |-> pageName, outcome |-> "returned",
                  result |-> getPageUrl(pathname, pageName)]
  /\ UNCHANGED <<pathname, href, requests, doc, loads, layout, timers>>
  /\ UNCHANGED sessionVars

\* the oldest setTimeout callback runs: all have the same delay
TimerFire ==
  /\ timers # <<>>
  /\ href' = Head(timers).href
  /\ timers' = Tail(timers)
  /\ lastCall' = [op |-> "timer", arg |-> Head(timers).href, outcome |-> "returned"]
  /\ UNCHANGED <<pathname, requests, doc, loads, layout>>
  /\ UNCHANGED sessionVars

(***************************************************************************)
(* Status dropdowns                                                        *)
(***************************************************************************)
\* A .status-dropdown is [kind, open, badge, listeners]: what its markup
\* holds, whether it carries the class open, the class list and text of its
\* .status-badge, and how many click listeners its badge wrapper (and each of
\* its items) has.  Kinds: "full" has the badge wrapper with its badge and
\* the menu; "noLabel" has a badge wrapper without a .status-badge in it;
\* "noMenu" has no .dropdown-menu.
HasMenu(dropdown) == dropdown.kind # "noMenu"
HasMainBadge(dropdown) == dropdown.kind # "noLabel"

StatusDropdown(kind, open) ==
  [kind |-> kind, open |-> open,
   badge |-> [cls |-> {"status-badge", "pendente"}, text |-> "PENDENTE"],
   listeners |-> 0]

\* the .dropdown-item elements of a menu: data-value (NULL when the
\* attribute is missing) and text
DropdownItems ==
  { [value |-> "aprovado", text |-> "Aprovado"],
    [value |-> NULL, text |-> "Rascunho"] }

toUpperCase(text) ==
  CASE text = "Aprovado" -> "APROVADO"
    [] text = "Rascunho" -> "RASCUNHO"

\* classList.add(value): a null argument is added as the token "null"
ClassToken(value) == IF value = NULL THEN "null" ELSE value

closeAllDropdowns(d) ==
  [d EXCEPT !.status = [j \in 1..Len(d.status) |-> [d.status[j] EXCEPT !.open = FALSE]]]

initStatusDropdowns(d) ==
  IF Len(d.status) = 0 THEN d
  ELSE [d EXCEPT
         !.status = [j \in 1..Len(d.status) |->
                       IF HasMenu(d.status[j])
                       THEN [d.status[j] EXCEPT !.listeners = @ + 1]
                       ELSE d.status[j]],
         !.statusWindowListeners = @ + 1]

\* the click listener of the badge wrapper of the j-th dropdown
badgeWrapperClickToggleOnly(d, j) == [d EXCEPT !.status[j].open = ~@]
badgeWrapperClick(d, j) ==
  LET wasOpen == d.status[j].open
      closed == closeAllDropdowns(d)
  IN IF ~wasOpen THEN [closed EXCEPT !.status[j].open = TRUE] ELSE closed

\* the click listener of an item of the j-th dropdown
dropdownItemClick(d, j, item) ==
  LET newValue == item.value
      newText == item.text
  IN IF HasMainBadge(d.status[j])
     THEN [d EXCEPT !.status[j].badge =
                      [cls |-> {"status-badge", ClassToken(newValue)},
                       text |-> toUpperCase(newText)]]
     ELSE d

(***************************************************************************)
(* Clicks                                                                  *)
(***************************************************************************)
\* classList.toggle
Toggle(classes, c) == IF c \in classes THEN classes \ {c} ELSE classes \cup {c}

\* the click listener of profileBtn, after its stopPropagation
profileBtnClick(d) ==
  [d EXCEPT !.active = Toggle(Toggle(@, "profileDropdown"), "profileBtn")]

\* the click listener setupEventListeners puts on window; where profileBtn
\* is missing, its second statement throws after the first has run
windowClick(d) ==
  IF getElementById(d, "profileDropdown") /\ "profileDropdown" \in d.active
  THEN [d EXCEPT !.active = @ \ {"profileDropdown", "profileBtn"}]
  ELSE d

\* the n listeners of an element run in the order of their registration
RECURSIVE profileBtnListeners(_, _)
profileBtnListeners(n, d) ==
  IF n = 0 THEN d ELSE profileBtnListeners(n - 1, profileBtnClick(d))

RECURSIVE badgeWrapperListeners(_, _, _)
badgeWrapperListeners(n, d, j) ==
  IF n = 0 THEN d ELSE badgeWrapperListeners(n - 1, badgeWrapperClick(d, j), j)

RECURSIVE dropdownItemListeners(_, _, _, _)
dropdownItemListeners(n, d, j, item) ==
  IF n = 0 THEN d ELSE dropdownItemListeners(n - 1, dropdownItemClick(d, j, item), j, item)

RECURSIVE setupWindowListeners(_, _)
setupWindowListeners(n, d) ==
  IF n = 0 THEN d ELSE setupWindowListeners(n - 1, windowClick(d))

RECURSIVE statusWindowListeners(_, _)
statusWindowListeners(n, d) ==
  IF n = 0 THEN d ELSE statusWindowListeners(n - 1, closeAllDropdowns(d))

\* a click that no listener stopped reaches window: the listeners of
\* setupEventListeners do not touch what those of initStatusDropdowns touch,
\* so the order between the two groups does not show
windowListenersRun(d) ==
  statusWindowListeners(d.statusWindowListeners,
                        setupWindowListeners(d.windowListeners, d))

\* the n click listeners of an a[data-page]: each prevents the default and
\* calls navigateToPage with the attribute
RECURSIVE navLinkListeners(_, _, _, _)
navLinkListeners(n, st, path, pageName) ==
  IF n = 0 THEN st
  ELSE LET r == navigateToPage(st.doc, st.href, path, pageName) IN
       navLinkListeners(n - 1,
                        [doc |-> r.doc, href |-> r.href,
                         timers |-> st.timers \o r.timers,
                         calls |-> Append(st.calls, pageName),
                         defaultPrevented |-> TRUE],
                        path, pageName)

Clicked(target, outcome, calls, defaultPrevented) ==
  [op |-> "click", arg |-> target, outcome |-> outcome, calls |-> calls,
   defaultPrevented |-> defaultPrevented]

ClickProfileBtn ==
  /\ getElementById(doc, "profileBtn")
  /\ IF doc.btnListeners > 0
     THEN /\ doc' = profileBtnListeners(doc.btnListeners, doc)
          /\ lastCall' = Clicked([t |-> "profileBtn"], "stopped", <<>>, FALSE)
     ELSE /\ doc' = windowListenersRun(doc)
          /\ lastCall' = Clicked([t |-> "profileBtn"], "propagated", <<>>, FALSE)
  /\ UNCHANGED <<pathname, href, requests, loads, layout, timers>>
  /\ UNCHANGED sessionVars

\* a click on an element that has no click listener of this script and no
\* ancestor that has one
ClickElsewhere ==
  /\ doc' = windowListenersRun(doc)
  /\ lastCall' = Clicked([t |-> "elsewhere"], "propagated", <<>>, FALSE)
  /\ UNCHANGED <<pathname, href, requests, loads, layout, timers>>
  /\ UNCHANGED sessionVars

ClickBadge(j) ==
  /\ j \in 1..Len(doc.status)
  /\ IF doc.status[j].listeners > 0
     THEN /\ doc' = badgeWrapperListeners(doc.status[j].listeners, doc, j)
          /\ lastCall' = Clicked([t |-> "badge", j |-> j], "stopped", <<>>, FALSE)
     ELSE /\ doc' = windowListenersRun(doc)
          /\ lastCall' = Clicked([t |-> "badge", j |-> j], "propagated", <<>>, FALSE)
  /\ UNCHANGED <<pathname, href, requests, loads, layout, timers>>
  /\ UNCHANGED sessionVars

ClickItem(j, item) ==
  /\ j \in 1..Len(doc.status)
  /\ HasMenu(doc.status[j])
  /\ doc' = windowListenersRun(
              dropdownItemListeners(doc.status[j].listeners, doc, j, item))
  /\ lastCall' = Clicked([t |-> "item", j |-> j, item |-> item], "propagated",
                         <<>>, FALSE)
  /\ UNCHANGED <<pathname, href, requests, loads, layout, timers>>
  /\ UNCHANGED sessionVars

ClickLink(i) ==
  /\ i \in 1..Len(doc.links)
  /\ LET r == navLinkListeners(doc.links[i].listeners,
                               [doc |-> doc, href |-> href, timers |-> <<>>,
                                calls |-> <<>>, defaultPrevented |-> FALSE],
                               pathname, doc.links[i].page)
     IN /\ Len(timers) + Len(r.timers) <= MaxTimers
        /\ doc' = windowListenersRun(r.doc)
        /\ href' = r.href
        /\ timers' = timers \o r.timers
        /\ lastCall' = Clicked([t |-> "link", i |-> i], "propagated", r.calls,
                               r.defaultPrevented)
  /\ UNCHANGED <<pathname, requests, loads, layout>>
  /\ UNCHANGED sessionVars

\* setupEventListeners called once more, by initLayout or by the page
SetupEventListenersCall ==
  /\ doc.windowListeners < MaxSetups
  /\ doc' = setupEventListeners(doc)
  /\ lastCall' = [op |-> "setupEventListeners", arg |-> doc, outcome |-> "returned"]
  /\ UNCHANGED <<pathname, href, requests, loads, layout, timers>>
  /\ UNCHANGED sessionVars

\* the page's script calls initStatusDropdowns when its dropdowns are in the
\* document
InitStatusDropdownsCall ==
  /\ doc.statusWindowListeners = 0
  /\ doc' = initStatusDropdowns(doc)
  /\ lastCall' = [op |-> "initStatusDropdowns", arg |-> doc, outcome |-> "returned"]
  /\ UNCHANGED <<pathname, href, requests, loads, layout, timers>>
  /\ UNCHANGED sessionVars

(***************************************************************************)
(* Auth guard                                                              *)
(***************************************************************************)
GuardFailed(s, cu, path) ==
  [store |-> localStorageClear(s), href |-> LoginUrl(path),
   currentUser |-> cu, outcome |-> "threw"]

GuardPassed(s, cu, h) ==
  [store |-> s, href |-> h, currentUser |-> cu, outcome |-> "returned"]

\* the try block of protectPage, entered with a token present
protectPageSwallowsParseError(s, cu, h, path) ==
  LET userData == getItem(s, "userData") IN
  IF ~Truthy(userData) THEN GuardPassed(s, cu, h)
  ELSE LET parsed == JSONParse(userData) IN
       IF ~parsed.ok THEN GuardPassed(s, cu, h)
       ELSE GuardPassed(s, parsed.value, h)

protectPageDropsUser(s, cu, h, path) ==
  LET userData == getItem(s, "userData") IN
  IF ~Truthy(userData) THEN GuardPassed(s, cu, h)
  ELSE LET parsed == JSONParse(userData) IN
       IF ~parsed.ok THEN GuardFailed(s, cu, path)
       ELSE GuardPassed(s, cu, h)

protectPageRequiresUser(s, cu, h, path) ==
  LET userData == getItem(s, "userData") IN
  IF ~Truthy(userData) THEN GuardFailed(s, cu, path)
  ELSE LET parsed == JSONParse(userData) IN
       IF ~parsed.ok THEN GuardFailed(s, cu, path)
       ELSE IF PropertyReadThrows(parsed.value)
            THEN GuardFailed(s, parsed.value, path)
            ELSE GuardPassed(s, parsed.value, h)

protectPageUser(s, cu, h, path) ==
  LET userData == getItem(s, "userData") IN
  IF ~Truthy(userData) THEN GuardPassed(s, cu, h)
  ELSE LET parsed == JSONParse(userData) IN
       IF ~parsed.ok THEN GuardFailed(s, cu, path)
       ELSE IF PropertyReadThrows(parsed.value)
            THEN GuardFailed(s, parsed.value, path)
            ELSE GuardPassed(s, parsed.value, h)

protectPage(s, cu, h, path) ==
  IF ~Truthy(getItem(s, "authToken"))
  THEN GuardFailed(s, cu, path)
  ELSE protectPageUser(s, cu, h, path)

ProtectPageCall ==
  LET r == protectPage(store, currentUser, href, pathname) IN
  /\ store' = r.store
  /\ href' = r.href
  /\ currentUser' = r.currentUser
  /\ lastCall' = [op |-> "protectPage", arg |-> store, outcome |-> r.outcome]
  /\ UNCHANGED <<pathname, logoutPending, requests, toasts, domLoaded>>
  /\ UNCHANGED pageVars

(***************************************************************************)
(* Logout                                                                  *)
(***************************************************************************)
\* the three statements after the if of logout
logoutFinishClearsStore(s, path) ==
  [store |-> localStorageClear(s), href |-> LoginUrl(path)]

logoutFinish(s, path) ==
  [store |-> removeItem(removeItem(s, "authToken"), "userData"),
   href |-> LoginUrl(path)]

FetchOutcomes == {"ok", "notOk", "rejected"}

\* the rest of logout() once its fetch has settled: each outcome is logged
\* (console.log, console.warn, or console.error in the catch) and falls
\* through to the statements after the if
logoutSettledAbortsOnError(outcome, s, h, path) ==
  IF outcome = "rejected"
  THEN [store |-> s, href |-> h, console |-> "uncaught"]
  ELSE [store |-> logoutFinish(s, path).store, href |-> logoutFinish(s, path).href,
        console |-> IF outcome = "ok" THEN "log" ELSE "warn"]

logoutSettled(outcome, s, h, path) ==
  [store |-> logoutFinish(s, path).store,
   href |-> logoutFinish(s, path).href,
   console |-> CASE outcome = "ok" -> "log"
                 [] outcome = "notOk" -> "warn"
                 [] outcome = "rejected" -> "error"]

\* logout() up to its first suspension, or to its end when no token is stored
LogoutCall ==
  LET authToken == getItem(store, "authToken") IN
  /\ IF Truthy(authToken)
     THEN /\ Len(requests) < MaxRequests
          /\ requests' = Append(requests,
                 [url |-> LogoutEndpoint, method |-> "POST", bearer |-> authToken])
          /\ logoutPending' = logoutPending + 1
          /\ UNCHANGED <<store, href>>
     ELSE /\ store' = logoutFinish(store, pathname).store
          /\ href' = logoutFinish(store, pathname).href
          /\ UNCHANGED <<requests, logoutPending>>
  /\ lastCall' = [op |-> "logout", arg |-> store,
                  outcome |-> IF Truthy(authToken) THEN "suspended" ELSE "returned"]
  /\ UNCHANGED <<pathname, currentUser, toasts, domLoaded>>
  /\ UNCHANGED pageVars

\* the fetch of a suspended logout() settles and the call runs to its end
LogoutSettle(outcome) ==
  LET r == logoutSettled(outcome, store, href, pathname) IN
  /\ logoutPending > 0
  /\ logoutPending' = logoutPending - 1
  /\ store' = r.store
  /\ href' = r.href
  /\ lastCall' = [op |-> "logoutSettle", arg |-> store, outcome |-> outcome]
  /\ UNCHANGED <<pathname, currentUser, requests, toasts, domLoaded>>
  /\ UNCHANGED pageVars

(***************************************************************************)
(* The DOMContentLoaded listener                                           *)
(***************************************************************************)
\* showToast is defined outside global.js; it is taken to return
DOMContentLoaded ==
  /\ ~domLoaded
  /\ domLoaded' = TRUE
  /\ IF getItem(store, "showLoginSuccessToast") = "true"
     THEN /\ toasts' = toasts + 1
          /\ store' = removeItem(store, "showLoginSuccessToast")
     ELSE UNCHANGED <<toasts, store>>
  /\ lastCall' = [op |-> "DOMContentLoaded", arg |-> store, outcome |-> "returned"]
  /\ UNCHANGED <<pathname, href, currentUser, logoutPending, requests>>
  /\ UNCHANGED pageVars

(***************************************************************************)
(* The session specification: a protected page with any stored session    *)
(***************************************************************************)
\* window.currentUser as a script that ran earlier on the page may have
\* left it
EarlierUser == [t |-> "object", email |-> "old@x", role |-> "user"]

InitAuth ==
  /\ pathname \in Pathnames
  /\ href = NoNavigation
  /\ store \in { s \in [Keys -> TokenTexts \cup UserTexts \cup {"true", "dark"}] :
                   /\ s["authToken"] \in TokenTexts
                   /\ s["userData"] \in UserTexts
                   /\ s["showLoginSuccessToast"] \in {NULL, "true"}
                   /\ s["theme"] \in {NULL, "dark"} }
  /\ currentUser \in {JsUndefined, EarlierUser}
  /\ logoutPending = 0
  /\ requests = <<>>
  /\ toasts = 0
  /\ domLoaded = FALSE
  /\ doc = DocWith(PlaceholderIds \cup PlainIds, MainContentOf(<<"form">>))
  /\ loads = <<>>
  /\ layout = LayoutIdle
  /\ timers = <<>>
  /\ lastCall = [op |-> "load", arg |-> store, outcome |-> "returned"]

NextAuth ==
  \/ ProtectPageCall
  \/ LogoutCall
  \/ \E outcome \in FetchOutcomes : LogoutSettle(outcome)
  \/ DOMContentLoaded

SpecAuth == InitAuth /\ [][NextAuth]_vars

(***************************************************************************)
(* The auth guard and logout, checked under SpecAuth                       *)
(***************************************************************************)
\* the stored userData at which JSON.parse throws
ParseFails(text) == Truthy(text) /\ ~JSONParse(text).ok

\* the stored userData that JSON.parse turns into an object
ParsesToRecord(text) ==
  Truthy(text) /\ JSONParse(text).ok /\ JSONParse(text).value.t = "object"

\* C1: protectPage() with no authToken stored (absent or empty) leaves the
\* store empty whatever it held, sets the location to <basePath>/app/login.html
\* and ends by throwing.
C1_NoTokenClearsRedirectsThrows ==
  [][(lastCall'.op = "protectPage" /\ ~Truthy(store["authToken"]))
       => /\ \A k \in Keys : store'[k] = NULL
          /\ href' = <<pathname[1], "app", "login.html">>
          /\ lastCall'.outcome = "threw"]_vars

C1_Witness ==
  /\ lastCall.op = "protectPage"
  /\ ~Truthy(lastCall.arg["authToken"])
  /\ lastCall.arg["theme"] = "dark"
  /\ lastCall.arg["userData"] = UserRecordText
  /\ lastCall.outcome = "threw"
  /\ store = EmptyStore

C3_ValidSessionExposesUser ==
  [][(/\ lastCall'.op = "protectPage"
      /\ Truthy(store["authToken"])
      /\ ParsesToRecord(store["userData"]))
       => /\ href' = href
          /\ store' = store
          /\ currentUser' = JSONParse(store["userData"]).value
          /\ lastCall'.outcome = "returned"]_vars

C3_Witness ==
  /\ lastCall.op = "protectPage"
  /\ Truthy(lastCall.arg["authToken"])
  /\ lastCall.arg["userData"] = UserRecordText
  /\ lastCall.outcome = "returned"
  /\ currentUser = [t |-> "object", email |-> "a@x", role |-> "admin"]
  /\ href = NoNavigation

\* C4: logout() ends with authToken and userData removed and the location set
\* to the login page, whichever way the backend request settles (OK, non-OK,
\* network error); with no token stored it sends no request and does the same.
C4_LogoutAlwaysSucceeds ==
  [][/\ lastCall'.op = "logoutSettle"
          => /\ store'["authToken"] = NULL
             /\ store'["userData"] = NULL
             /\ href' = <<pathname[1], "app", "login.html">>
     /\ (lastCall'.op = "logout" /\ ~Truthy(store["authToken"]))
          => /\ requests' = requests
             /\ store'["authToken"] = NULL
             /\ store'["userData"] = NULL
             /\ href' = <<pathname[1], "app", "login.html">>
     /\ (lastCall'.op = "logout" /\ Truthy(store["authToken"]))
          => /\ Len(requests') = Len(requests) + 1
             /\ requests'[Len(requests')].url = <<"api", "auth", "logout">>
             /\ requests'[Len(requests')].bearer = store["authToken"]]_vars

C4_Witness ==
  /\ lastCall.op = "logoutSettle"
  /\ lastCall.outcome = "rejected"
  /\ lastCall.arg["authToken"] = "tok123"
  /\ lastCall.arg["userData"] = UserRecordText
  /\ store["authToken"] = NULL
  /\ store["userData"] = NULL
  /\ href = LoginUrl(pathname)

\* C19: protectPage with a token stored and userData absent or empty
\* returns normally: no redirect, the store as it was, and window.currentUser
\* not assigned, so it keeps the value it had.
C19_NoUserDataPassesUntouched ==
  [][(/\ lastCall'.op = "protectPage"
      /\ Truthy(store["authToken"])
      /\ store["userData"] \in {NULL, ""})
       => /\ lastCall'.outcome = "returned"
          /\ href' = href
          /\ store' = store
          /\ currentUser' = currentUser]_vars

\* a token and no userData, on a page where currentUser had a value
C19_Witness ==
  /\ lastCall.op = "protectPage"
  /\ lastCall.outcome = "returned"
  /\ store["authToken"] = "tok123"
  /\ store["userData"] = NULL
  /\ lastCall.arg = store
  /\ href = NoNavigation
  /\ currentUser = EarlierUser

LogoutKeys == {"authToken", "userData"}

\* C20: logout removes the keys authToken and userData and leaves every
\* other key of the store as it was; a protectPage that fails removes every
\* key.
C20_LogoutRemovesTwoKeysGuardClearsAll ==
  [][/\ (\/ lastCall'.op = "logoutSettle"
         \/ lastCall'.op = "logout" /\ lastCall'.outcome = "returned")
          => /\ \A k \in LogoutKeys : store'[k] = NULL
             /\ \A k \in Keys \ LogoutKeys : store'[k] = store[k]
     /\ (lastCall'.op = "protectPage" /\ lastCall'.outcome = "threw")
          => \A k \in Keys : store'[k] = NULL]_vars

\* after a logout that had a session to end: the other keys are still there
C20_Witness ==
  /\ lastCall.op = "logoutSettle"
  /\ lastCall.arg["authToken"] = "tok123"
  /\ lastCall.arg["userData"] = UserRecordText
  /\ store["authToken"] = NULL
  /\ store["userData"] = NULL
  /\ store["showLoginSuccessToast"] = "true"
  /\ store["theme"] = "dark"

(***************************************************************************)
(* The auto-repair specification: any document, repaired again and again   *)
(***************************************************************************)
QuietSession == [k \in Keys |-> NULL]

InitFix ==
  /\ pathname = <<"telas2", "app", "dashboard.html">>
  /\ href = NoNavigation
  /\ store = QuietSession
  /\ currentUser = JsUndefined
  /\ logoutPending = 0
  /\ requests = <<>>
  /\ toasts = 0
  /\ domLoaded = FALSE
  /\ doc \in { DocWith(PlainIds, NoElement) }
               \cup { DocWith(PlainIds, MainContentOf(ks)) : ks \in KindSeqs(MaxChildren) }
  /\ loads = <<>>
  /\ layout = LayoutIdle
  /\ timers = <<>>
  /\ lastCall = [op |-> "load", arg |-> doc, outcome |-> "returned"]

NextFix == AutoFixCall

SpecFix == InitFix /\ [][NextFix]_vars

\* C10: running autoFixFormSectionLayout a second time changes nothing in
\* the document: no wrapper is created and no element moves.
C10_AutoFixIdempotent ==
  [][(/\ lastCall.op = "autoFixFormSectionLayout"
      /\ lastCall'.op = "autoFixFormSectionLayout")
       => doc' = doc]_vars

\* a second run on a document the first run has wrapped
C10_Witness ==
  /\ lastCall.op = "autoFixFormSectionLayout"
  /\ lastCall.arg = doc
  /\ doc.created = 2
  /\ Len(doc.main.kids) = 2
  /\ doc.main.kids[1].cls = {"page-header"}
  /\ doc.main.kids[2].cls = {"page-content-wrapper"}
  /\ Len(doc.main.kids[2].kids[1].kids) = 2

\* the direct children of .main-content carrying one of the four section
\* classes, in the order of the document
SectionClasses == { containerSelectors[i] : i \in 1..Len(containerSelectors) }
SectionChildren(mainContent) ==
  SelectSeq(mainContent.kids, LAMBDA k : k.cls \cap SectionClasses # {})

\* C11: when autoFixFormSectionLayout wraps, the new inner wrapper holds
\* the matching direct children of .main-content in the relative order they
\* had in the document, whatever the mix and order of the four classes.
C11_WrapKeepsDocumentOrder ==
  [][(/\ lastCall'.op = "autoFixFormSectionLayout"
      /\ doc'.created > doc.created)
       => LET pageContentWrapper == doc'.main.kids[Len(doc'.main.kids)]
              contentArea == pageContentWrapper.kids[1]
          IN contentArea.kids = SectionChildren(doc.main)]_vars

(***************************************************************************)
(* The layout specification: initLayout on any page, with loads of the     *)
(* page's own beside it                                                    *)
(***************************************************************************)
PlaceholderSets ==
  { PlaceholderIds, {}, PlaceholderIds \ {"sidebar-placeholder"},
    {"sidebar-placeholder", "navbar-placeholder"} }

InitPageLoad ==
  /\ pathname \in Pathnames
  /\ href = NoNavigation
  /\ store = QuietSession
  /\ currentUser = JsUndefined
  /\ logoutPending = 0
  /\ requests = <<>>
  /\ toasts = 0
  /\ domLoaded = FALSE
  /\ doc \in { DocWith(ps \cup PlainIds, MainContentOf(<<"plain", "pautas", "form">>)) :
                 ps \in PlaceholderSets }
               \cup { DocWith(ps, NoElement) : ps \in PlaceholderSets }
  /\ loads = <<>>
  /\ layout = LayoutIdle
  /\ timers = <<>>
  /\ lastCall = [op |-> "load", arg |-> "", outcome |-> "returned"]

NextLayout ==
  \/ \E pageConfig \in PageConfigs : InitLayoutCall(pageConfig)
  \/ \E componentPath \in DirectPaths, targetElementId \in DirectTargets :
       LoadComponentCall(componentPath, targetElementId)
  \/ \E i \in 1..(MaxDirectLoads + 2), outcome \in FetchOutcomes : FetchSettle(i, outcome)
  \/ \E i \in 1..(MaxDirectLoads + 2), body \in BodyOutcomes : BodySettle(i, body)

SpecLayout == InitPageLoad /\ [][NextLayout]_vars

\* C5: a loadComponent call whose target exists always completes normally:
\* after a rejected fetch, a response that is not OK, or a failed read of the
\* body, the target holds the error message naming the path; after an OK
\* response whose body was read, the target holds the fetched text.
C5_LoadComponentAbsorbsFailures ==
  [][\A i \in 1..Len(loads) :
       (loads[i].pc # "done" /\ loads'[i].pc = "done")
         => /\ loads'[i].ended = "returned"
            /\ lastCall'.op = "loadComponent.settled"
            /\ lastCall'.arg.frame = i
            /\ IF lastCall'.arg.fetch = "ok" /\ lastCall'.arg.body.ok
               THEN /\ doc'.html[loads[i].target].kind = "text"
                    /\ doc'.html[loads[i].target].text = lastCall'.arg.body.text
               ELSE /\ doc'.html[loads[i].target].kind = "error"
                    /\ doc'.html[loads[i].target].path = loads[i].path]_vars

\* the body of an OK response could not be read, and the call still returned
C5_Witness ==
  /\ lastCall.op = "loadComponent.settled"
  /\ lastCall.arg.fetch = "ok"
  /\ ~lastCall.arg.body.ok
  /\ loads[lastCall.arg.frame].ended = "returned"
  /\ doc.html[loads[lastCall.arg.frame].target].kind = "error"
  /\ doc.html[loads[lastCall.arg.frame].target].path = loads[lastCall.arg.frame].path

\* C6: loadComponent with a target id that no element has issues no request
\* and changes nothing in the document.
C6_MissingTargetIsNoOp ==
  [][/\ (lastCall'.op = "loadComponent" /\ lastCall'.arg.target \notin doc.ids)
          => /\ requests' = requests
             /\ doc' = doc
             /\ lastCall'.outcome = "returned"
     /\ \A j \in (Len(loads) + 1)..Len(loads') :
          loads'[j].target \notin doc.ids
            => /\ loads'[j].pc = "done"
               /\ loads'[j].ended = "returned"
               /\ \A n \in (Len(requests) + 1)..Len(requests') :
                    requests'[n].url # loads'[j].path]_vars

C6_Witness ==
  /\ lastCall.op = "loadComponent"
  /\ lastCall.arg.target = "no-such-id"
  /\ requests = <<>>
  /\ loads[Len(loads)].result = "no-target"

\* the fragments and placeholders named for each context marker
ContextsIn(path) == {c \in {"admin", "app", "portal"} : PathIncludes(path, c)}

FragmentsFor(context, path) ==
  CASE context = "admin" ->
         <<[path |-> <<path[1], "components", "admin_sidebar.html">>,
            target |-> "sidebar-placeholder"],
           [path |-> <<path[1], "components", "admin_header.html">>,
            target |-> "header-placeholder"]>>
    [] context = "app" ->
         <<[path |-> <<path[1], "components", "app_sidebar.html">>,
            target |-> "sidebar-placeholder"],
           [path |-> <<path[1], "components", "app_header.html">>,
            target |-> "header-placeholder"]>>
    [] context = "portal" ->
         <<[path |-> <<path[1], "components", "portal_navbar.html">>,
            target |-> "navbar-placeholder"],
           [path |-> <<path[1], "components", "portal_footer.html">>,
            target |-> "footer-placeholder"]>>

\* the loadComponent calls initLayout has made, in order
LayoutFrames == SelectSeq(loads, LAMBDA f : f.caller = "initLayout")

\* the fragment requests among those issued, in order
FragmentRequests ==
  SelectSeq(requests, LAMBDA r : Len(r.url) = 3 /\ r.url[2] = "components"
                                   /\ r.url[3] # "widget.html")

\* C7 as stated: on a path with a context marker a finished initLayout has
\* fetched exactly the two fragments of that context, in order, each into
\* its placeholder.
C7_TwoFragmentsAlwaysLoad ==
  (layout.pc = "done" /\ ContextsIn(pathname) # {})
    => \E c \in ContextsIn(pathname) :
         /\ Len(LayoutFrames) = 2
         /\ Len(FragmentRequests) = 2
         /\ \A k \in 1..2 :
              /\ LayoutFrames[k].path = FragmentsFor(c, pathname)[k].path
              /\ LayoutFrames[k].target = FragmentsFor(c, pathname)[k].target
              /\ FragmentRequests[k].url = FragmentsFor(c, pathname)[k].path
              /\ doc.html[LayoutFrames[k].target].kind \in {"text", "error"}

\* C7 amended: on a path with a context marker a finished initLayout has
\* called loadComponent exactly twice, in order, with the two fragments and
\* placeholders of that context, and has fetched, in that order, exactly the
\* fragments whose placeholder the document has.
C7_TwoLoadsIntoPresentPlaceholders ==
  (layout.pc = "done" /\ ContextsIn(pathname) # {})
    => \E c \in ContextsIn(pathname) :
         LET want == FragmentsFor(c, pathname)
             present == SelectSeq(want, LAMBDA f : f.target \in doc.ids)
         IN /\ Len(LayoutFrames) = 2
            /\ \A k \in 1..2 :
                 /\ LayoutFrames[k].path = want[k].path
                 /\ LayoutFrames[k].target = want[k].target
                 /\ IF want[k].target \in doc.ids
                    THEN doc.html[want[k].target].kind \in {"text", "error"}
                    ELSE LayoutFrames[k].result = "no-target"
            /\ Len(FragmentRequests) = Len(present)
            /\ \A n \in 1..Len(present) : FragmentRequests[n].url = present[n].path

\* the sidebar placeholder is missing: only the header fragment was fetched
C7_Witness ==
  /\ layout.pc = "done"
  /\ pathname = <<"telas2", "admin", "dashboard_admin.html">>
  /\ "sidebar-placeholder" \notin doc.ids
  /\ Len(LayoutFrames) = 2
  /\ LayoutFrames[1].result = "no-target"
  /\ LayoutFrames[2].result = "text"
  /\ Len(FragmentRequests) = 1
  /\ doc.html["header-placeholder"].kind = "text"

\* C12: on a path with none of the three context markers, initLayout
\* calls loadComponent for no fragment and issues no fetch, and in the same
\* call applies the page configuration, runs the auto-repair and wires the
\* listeners.
C12_NoMarkerNoFetchStillWires ==
  [][(lastCall'.op = "initLayout" /\ ContextsIn(pathname) = {})
       => LET pageConfig == lastCall'.arg IN
          /\ requests' = requests
          /\ loads' = loads
          /\ layout'.pc = "done"
          /\ (pageConfig # NoConfig =>
                /\ ("header-title" \in doc.ids /\ pageConfig.title # "")
                     => doc'.title = pageConfig.title
                /\ ("header-icon" \in doc.ids /\ pageConfig.icon # "")
                     => doc'.icon = "fa-solid " \o pageConfig.icon
                /\ (pageConfig.navActive \in doc.ids)
                     => pageConfig.navActive \in doc'.active)
          /\ (Found(doc.main) /\ SectionChildren(doc.main) # <<>>)
               => /\ HasDescendant(doc'.main, "page-content-wrapper")
                  /\ SectionChildren(doc'.main) = <<>>
          /\ doc'.windowListeners = doc.windowListeners + 1
          /\ \A i \in 1..Len(doc'.links) : doc'.links[i].listeners = 1
          /\ ("profileBtn" \in doc.ids /\ "profileDropdown" \in doc.ids)
               => doc'.btnListeners = doc.btnListeners + 1
          /\ doc'.observed = doc.observed + doc.fadeIn]_vars

\* a standalone page with placeholders in its markup: nothing was fetched,
\* the header was filled in, the sections were wrapped, the listeners wired
C12_Witness ==
  /\ lastCall.op = "initLayout"
  /\ pathname = <<"telas2", "index.html">>
  /\ "sidebar-placeholder" \in doc.ids
  /\ requests = <<>>
  /\ loads = <<>>
  /\ layout.pc = "done"
  /\ doc.title = "Painel"
  /\ doc.created = 2
  /\ doc.windowListeners = 1
  /\ doc.links[1].listeners = 1

\* what initLayout's closing calls leave in the document
FinishBegun ==
  \/ doc.title # ""
  \/ doc.icon # ""
  \/ doc.active # {}
  \/ doc.created > 0
  \/ doc.windowListeners > 0
  \/ doc.btnListeners > 0
  \/ doc.observers > 0
  \/ \E i \in 1..Len(doc.links) : doc.links[i].listeners > 0

\* a loadComponent call is over: it returned, and a target it had holds the
\* fetched text or the error message
Finished(frame) ==
  /\ frame.pc = "done"
  /\ frame.target \in doc.ids => doc.html[frame.target].kind \in {"text", "error"}

\* C13: in a run of initLayout the second fragment is not called for, and
\* not fetched, before the first loadComponent call is over, and the page
\* configuration, the auto-repair and the listener wiring do not begin before
\* both calls are over, however the two fetches end.
C13_LoadsInSequenceThenWiring ==
  /\ Len(LayoutFrames) <= 2
  /\ Len(LayoutFrames) = 2 => Finished(LayoutFrames[1])
  /\ Len(FragmentRequests) = 2 => Finished(LayoutFrames[1])
  /\ FinishBegun
       => /\ layout.pc = "done"
          /\ Len(LayoutFrames) = IF ContextsIn(pathname) = {} THEN 0 ELSE 2
          /\ \A k \in 1..Len(LayoutFrames) : Finished(LayoutFrames[k])

\* the first fetch failed and the second succeeded: the wiring came after
\* the second fragment was written
C13_Witness ==
  /\ lastCall.op = "loadComponent.settled"
  /\ layout.pc = "done"
  /\ Len(LayoutFrames) = 2
  /\ Len(FragmentRequests) = 2
  /\ doc.html[LayoutFrames[1].target].kind = "error"
  /\ doc.html[LayoutFrames[2].target].kind = "text"
  /\ doc.windowListeners = 1
  /\ doc.created = 2

(***************************************************************************)
(* The navigation specification: page names resolved and navigated to,     *)
(* on any page                                                             *)
(***************************************************************************)
PageKeys == DOMAIN PageFiles

UnknownNames == {"unknown-key", "", "constructor", "toString", "__proto__"}

PageNames == PageKeys \cup UnknownNames

\* the names navigated to: some that resolve, and those that do not
NavigatedNames == {"dashboard", "perfil", "partidos"} \cup UnknownNames

InitNav ==
  /\ pathname \in Pathnames
  /\ href = NoNavigation
  /\ store = QuietSession
  /\ currentUser = JsUndefined
  /\ logoutPending = 0
  /\ requests = <<>>
  /\ toasts = 0
  /\ domLoaded = FALSE
  /\ doc \in { DocWith(PlainIds, NoElement),
               DocWith(PlainIds \ {"mainContent"}, NoElement) }
  /\ loads = <<>>
  /\ layout = LayoutIdle
  /\ timers = <<>>
  /\ lastCall = [op |-> "load", arg |-> "", outcome |-> "returned"]

NextNav ==
  \/ \E pageName \in NavigatedNames : NavigateToPageCall(pageName)
  \/ \E pageName \in PageNames : GetPageUrlCall(pageName)
  \/ TimerFire

SpecNav == InitNav /\ [][NextNav]_vars

\* C8: getPageUrl("dashboard") is <basePath>/admin/dashboard_admin.html when
\* the path contains /admin/ and <basePath>/app/dashboard.html otherwise;
\* every other key of the table gives the same URL in both contexts.
C8_DashboardByContext ==
  lastCall.op = "getPageUrl"
    => /\ lastCall.arg = "dashboard"
            => lastCall.result =
                 [t |-> "string",
                  url |-> IF PathIncludes(pathname, "admin")
                          THEN <<pathname[1], "admin", "dashboard_admin.html">>
                          ELSE <<pathname[1], "app", "dashboard.html">>]
       /\ lastCall.arg \in PageKeys \ {"dashboard"}
            => /\ lastCall.result.t = "string"
               /\ \A other \in Pathnames :
                    other[1] = pathname[1]
                      => getPageUrl(other, lastCall.arg) = lastCall.result

C8_Witness ==
  /\ lastCall.op = "getPageUrl"
  /\ lastCall.arg = "dashboard"
  /\ pathname = <<"telas2", "admin", "dashboard_admin.html">>
  /\ lastCall.result.url = <<"telas2", "admin", "dashboard_admin.html">>

\* C9: for every page name that is not one of the sixteen keys of the table,
\* names an object lookup inherits included, getPageUrl returns no URL and
\* navigateToPage warns, adds no transitioning class, schedules no timer and
\* does not change the location.
C9_UnknownNamesFailSoftly ==
  [][(lastCall'.op = "navigateToPage" /\ lastCall'.arg \notin PageKeys)
       => /\ getPageUrl(pathname, lastCall'.arg) = JsUndefined
          /\ lastCall'.outcome = "warned"
          /\ doc'.transitioning = doc.transitioning
          /\ timers' = timers
          /\ href' = href]_vars

\* C18: navigateToPage with a name of the table: where #mainContent exists
\* the class transitioning is added in the call, the location is left alone
\* and a timer of TransitionDelay is scheduled, and the location becomes the
\* resolved URL when that timer fires and not before; where it does not
\* exist the location becomes the resolved URL in the call and no timer is
\* scheduled.
C18_TransitionThenNavigate ==
  [][/\ (lastCall'.op = "navigateToPage" /\ lastCall'.arg \in PageKeys)
          => LET url == getPageUrl(pathname, lastCall'.arg).url IN
             IF "mainContent" \in doc.ids
             THEN /\ doc'.transitioning
                  /\ href' = href
                  /\ timers' = Append(timers, [delay |-> TransitionDelay, href |-> url])
             ELSE /\ href' = url
                  /\ timers' = timers
                  /\ doc' = doc
     /\ (href' # href)
          => \/ /\ lastCall'.op = "timer"
                /\ timers # <<>>
                /\ href' = Head(timers).href
                /\ timers' = Tail(timers)
             \/ /\ lastCall'.op = "navigateToPage"
                /\ "mainContent" \notin doc.ids]_vars

\* the timer of a navigation to perfil has fired on a page with #mainContent
C18_Witness ==
  /\ lastCall.op = "timer"
  /\ "mainContent" \in doc.ids
  /\ doc.transitioning
  /\ timers = <<>>
  /\ href = <<pathname[1], "app", "perfil_camara.html">>

(***************************************************************************)
(* The interface specification: the listeners wired, then any clicks       *)
(***************************************************************************)
\* the .status-dropdown elements of a page, by kind, in document order
StatusMarkups ==
  { <<>>, <<"full">>, <<"full", "noLabel">>, <<"full", "noMenu", "full">> }

\* at most one dropdown carries the class open in the markup: the o-th
StatusOf(markup, o) == [j \in 1..Len(markup) |-> StatusDropdown(markup[j], j = o)]

InterfaceIdSets ==
  { PlainIds, PlainIds \ {"mainContent"}, PlainIds \ {"profileDropdown"} }

InitUI ==
  /\ pathname = <<"telas2", "app", "dashboard.html">>
  /\ href = NoNavigation
  /\ store = QuietSession
  /\ currentUser = JsUndefined
  /\ logoutPending = 0
  /\ requests = <<>>
  /\ toasts = 0
  /\ domLoaded = FALSE
  /\ doc \in { [DocWith(ids, NoElement) EXCEPT !.status = StatusOf(markup, o)] :
                 ids \in InterfaceIdSets,
                 markup \in StatusMarkups,
                 o \in 0..3 }
  /\ loads = <<>>
  /\ layout = LayoutIdle
  /\ timers = <<>>
  /\ lastCall = [op |-> "load", arg |-> "", outcome |-> "returned"]

NextUI ==
  \/ SetupEventListenersCall
  \/ InitStatusDropdownsCall
  \/ ClickProfileBtn
  \/ ClickElsewhere
  \/ \E j \in 1..3 : ClickBadge(j)
  \/ \E j \in 1..3, item \in DropdownItems : ClickItem(j, item)
  \/ \E i \in 1..2 : ClickLink(i)
  \/ TimerFire

SpecUI == InitUI /\ [][NextUI]_vars

OpenDropdowns(d) == { j \in 1..Len(d.status) : d.status[j].open }

\* C14: with the profile dropdown open, a click on anything but the profile
\* button, a status badge that initStatusDropdowns wired included, takes the
\* class active off the dropdown and off the button.
C14_AnyOtherClickClosesProfile ==
  [][(/\ "profileDropdown" \in doc.active
      /\ lastCall'.op = "click"
      /\ lastCall'.arg.t # "profileBtn")
       => /\ "profileDropdown" \notin doc'.active
          /\ "profileBtn" \notin doc'.active]_vars

\* C15: once initStatusDropdowns has run, a click outside every status
\* dropdown, one on the profile button that setupEventListeners wired
\* included, leaves no status dropdown open.
C15_OutsideClickClosesStatus ==
  [][(/\ doc.statusWindowListeners > 0
      /\ lastCall'.op = "click"
      /\ lastCall'.arg.t \in {"profileBtn", "elsewhere", "link"})
       => OpenDropdowns(doc') = {}]_vars

\* C16: at most one status dropdown is open after any click; a click on the
\* badge of a wired dropdown that was closed leaves exactly that one open,
\* and on the badge of the open one leaves none open.
C16_StatusDropdownsExclusive ==
  [][/\ Cardinality(OpenDropdowns(doc')) <= 1
     /\ (/\ lastCall'.op = "click"
         /\ lastCall'.arg.t = "badge"
         /\ doc.status[lastCall'.arg.j].listeners > 0)
          => OpenDropdowns(doc') =
               IF doc.status[lastCall'.arg.j].open THEN {} ELSE {lastCall'.arg.j}]_vars

\* the third badge was clicked after an item of the first dropdown had been
\* chosen: the third dropdown alone is open
C16_Witness ==
  /\ lastCall.op = "click"
  /\ lastCall.arg = [t |-> "badge", j |-> 3]
  /\ lastCall.outcome = "stopped"
  /\ Len(doc.status) = 3
  /\ doc.status[1].badge.text = "APROVADO"
  /\ doc.status[1].listeners = 1
  /\ OpenDropdowns(doc) = {3}

\* C17: after one or more runs of setupEventListeners every a[data-page] has
\* exactly one click listener, and a click on one prevents the default and
\* calls navigateToPage once, with the value of its data-page.
C17_OneListenerPerLink ==
  [][/\ doc'.windowListeners >= 1
          => \A i \in 1..Len(doc'.links) : doc'.links[i].listeners = 1
     /\ (/\ doc.windowListeners >= 1
         /\ lastCall'.op = "click"
         /\ lastCall'.arg.t = "link")
          => /\ lastCall'.defaultPrevented
             /\ lastCall'.calls = <<doc.links[lastCall'.arg.i].page>>]_vars

\* setupEventListeners ran twice, then the perfil link was clicked on a page
\* without #mainContent: one call, one navigation
C17_Witness ==
  /\ lastCall.op = "click"
  /\ lastCall.arg = [t |-> "link", i |-> 2]
  /\ doc.windowListeners = 2
  /\ doc.links[2].listeners = 1
  /\ lastCall.calls = <<"perfil">>
  /\ lastCall.defaultPrevented
  /\ href = <<"telas2", "app", "perfil_camara.html">>

====
